---- MODULE Spec2Model ----
(***************************************************************************)
(* State-machine model of the SOCI index generator lambda                  *)
(* (functions/source/soci-index-generator-lambda/handler.go).              *)
(*                                                                         *)
(* One behaviour is one invocation of HandleRequest together with the      *)
(* deadline goroutine started by setDeadline.  Strings the code inspects   *)
(* character by character (the regexp-checked event fields, the tag) are   *)
(* sequences of one-character strings; messages and errors are strings.    *)
(***************************************************************************)
EXTENDS Integers, Sequences, FiniteSets, TLC

VARIABLES
    event,             \* the ECRImageActionEvent passed to HandleRequest
    sociIndexVersion,  \* os.Getenv("soci_index_version")
    pc,                \* position of the main path inside HandleRequest
    ctx,               \* the values of ctx: those written by validateEvent,
                       \* RegistryURL (line 77) and SOCIIndexDigest (line 144)
    errors,            \* the violations recorded by validateEvent
    tag,               \* local variable tag of HandleRequest
    ret,               \* the (message, error) pair of the executed return statement
    workspace,         \* the dataDir directory: "none", "present" or "removed"
    wd,                \* position of the goroutine started by setDeadline
    timerFired,        \* timeoutChannel holds the timer's value
    indexDescriptorInfos, \* local variable indexDescriptorInfos of buildIndex
    indexDescriptor,   \* local variable indexDescriptor of HandleRequest
    pushArgs,          \* the arguments of each registry.Push call made
    results,           \* history: the error each external call returned
    trace,             \* history: the calls, releases and signals, in order
    log                \* Warn and Error records written through utils/log

vars == <<event, sociIndexVersion, pc, ctx, errors, tag, ret, workspace, wd,
          timerFired, indexDescriptorInfos, indexDescriptor, pushArgs, results,
          trace, log>>

----------------------------------------------------------------------------
(* Bounds of the model *)

\* largest number of index records the artifacts database returns for one image
MaxRecords == 2
\* creation timestamps of the records are drawn from 1..MaxTime
MaxTime == 2

----------------------------------------------------------------------------
(* Values *)

\* the nil error, and the nil / absent value of a local variable
Nil == "<nil>"
None == "<none>"
\* the value of ret before a return statement has executed
NoReturn == <<None, None>>

ErrEmptyIndex == "no ztocs created, all layers either skipped or produced errors"

BuildFailedMessage == "SOCI index build error"
PushFailedMessage == "SOCI index push error"
SkipPushOnEmptyIndexMessage == "Skipping pushing SOCI index as it does not contain any zTOCs"
BuildAndPushSuccessMessage == "Successfully built and pushed SOCI index"

ValidationFailedMessage == "ECRImageActionEvent validation error"
RegistryInitFailedMessage == "Remote registry initialization error"
ManifestValidationMessage == "Exited early due to manifest validation error"
NoTagSkipMessage == "Skipped SOCI index generation for V2 as image has no tag"
DirCreateFailedMessage == "Directory create error"
StoreInitFailedMessage == "OCI storage initialization error"
PullFailedMessage == "Image pull error"
TimeoutMessage == "Invocation timeout error"
CleanUpFailedMessage == "Clean up error"

RepositoryNameKey == "RepositoryName"
ImageDigestKey == "ImageDigest"
ImageTagKey == "ImageTag"
RegistryURLKey == "RegistryURL"
SOCIIndexDigestKey == "SOCIIndexDigest"

\* fmt.Errorf("<prefix>: %w", err): the message of the wrapping error
Wrap(prefix, err) == prefix \o ": " \o err

----------------------------------------------------------------------------
(* Characters and the regular expressions of validateEvent *)

Digit == {"0", "1", "2", "3", "4", "5", "6", "7", "8", "9"}
Lower == {"a", "b", "c", "d", "e", "f", "g", "h", "i", "j", "k", "l", "m",
          "n", "o", "p", "q", "r", "s", "t", "u", "v", "w", "x", "y", "z"}
Upper == {"A", "B", "C", "D", "E", "F", "G", "H", "I", "J", "K", "L", "M",
          "N", "O", "P", "Q", "R", "S", "T", "U", "V", "W", "X", "Y", "Z"}
Hex == Digit \cup {"a", "b", "c", "d", "e", "f"} \cup {"A", "B", "C", "D", "E", "F"}

\* regular expression syntax trees: a character class, a concatenation and
\* a bounded or unbounded (max = -1) repetition
Cls(set) == [t |-> "cls", set |-> set]
Cat(parts) == [t |-> "cat", parts |-> parts]
Rep(sub, min, max) == [t |-> "rep", sub |-> sub, min |-> min, max |-> max]
Star(sub) == Rep(sub, 0, -1)
Plus(sub) == Rep(sub, 1, -1)

\* Ends(r, s, i): the positions j such that r matches s[i..j-1];
\* RepEnds(sub, min, max, n, s, i): the same for the repetition of sub, of
\* which n iterations end at i
RECURSIVE Ends(_, _, _)
RECURSIVE RepEnds(_, _, _, _, _, _)
Ends(r, s, i) ==
    CASE r.t = "cls" -> IF i <= Len(s) /\ s[i] \in r.set THEN {i + 1} ELSE {}
      [] r.t = "cat" ->
            IF r.parts = <<>> THEN {i}
            ELSE UNION { Ends(Cat(Tail(r.parts)), s, j) : j \in Ends(Head(r.parts), s, i) }
      [] r.t = "rep" -> RepEnds(r.sub, r.min, r.max, 0, s, i)

RepEnds(sub, min, max, n, s, i) ==
    (IF n >= min THEN {i} ELSE {}) \cup
    (IF n = max THEN {}
     ELSE UNION { RepEnds(sub, min, max, n + 1, s, j) : j \in Ends(sub, s, i) \ {i} })

\* regexp.MatchString(pattern, s): the pattern matches some substring of s
MatchString(re, s) == \E i \in 1..(Len(s) + 1) : Ends(re, s, i) # {}

\* `[0-9]{12}`
AccountIdPattern == Rep(Cls(Digit), 12, 12)

\* `(?:[a-z0-9]+(?:[._-][a-z0-9]+)*/)*[a-z0-9]+(?:[._-][a-z0-9]+)*`
RepositoryNamePattern ==
    LET seg == Cat(<<Plus(Cls(Lower \cup Digit)),
                     Star(Cat(<<Cls({".", "_", "-"}), Plus(Cls(Lower \cup Digit))>>))>>)
    IN  Cat(<<Star(Cat(<<seg, Cls({"/"})>>)), seg>>)

\* `[[A-Za-z][A-Za-z0-9]*(?:[-_+.][A-Za-z][A-Za-z0-9]*)*[:][A-Fa-f0-9]{32,}`
ImageDigestPattern ==
    Cat(<<Cls({"["} \cup Upper \cup Lower),
          Star(Cls(Upper \cup Lower \cup Digit)),
          Star(Cat(<<Cls({"-", "_", "+", "."}), Cls(Upper \cup Lower),
                     Star(Cls(Upper \cup Lower \cup Digit))>>)),
          Cls({":"}),
          Rep(Cls(Hex), 32, -1)>>)

\* `[A-Za-z0-9_][A-Za-z0-9_.-]{0,127}`
ImageTagPattern ==
    Cat(<<Cls(Upper \cup Lower \cup Digit \cup {"_"}),
          Rep(Cls(Upper \cup Lower \cup Digit \cup {"_", ".", "-"}), 0, 127)>>)

----------------------------------------------------------------------------
(* validateEvent *)

\* a context that forgets the values stored before
WithValue_Forgetful(c, key, value) ==
    [k \in {key} |-> value]

\* context.WithValue(ctx, key, value)
WithValue(c, key, value) ==
    [k \in (DOMAIN c) \cup {key} |-> IF k = key THEN value ELSE c[k]]

\* the empty context
Background == [k \in {} |-> None]

\* errors = append(errors, e) when cond holds
AppendIf(errs, cond, e) == IF cond THEN Append(errs, e) ELSE errs

\* the last recorded violation returned instead of the first
firstError_Last(errs) == IF Len(errs) = 0 THEN Nil ELSE errs[Len(errs)]

\* validateEvent, lines 222-226: nil, or the first recorded violation
firstError(errs) == IF Len(errs) = 0 THEN Nil ELSE errs[1]

\* validateEvent(ctx, event): the context and the first recorded violation
validateEvent(e) ==
    LET e1 == AppendIf(<<>>, e.source # "aws.ecr",
                       "the event's 'source' must be 'aws.ecr'")
        e2 == AppendIf(e1, e.account = <<>>,
                       "the event's 'account' must not be empty")
        e3 == AppendIf(e2, e.detailType # "ECR Image Action",
                       "the event's 'detail-type' must be 'ECR Image Action'")
        e4 == AppendIf(e3, e.actionType # "PUSH",
                       "the event's 'detail.action-type' must be 'PUSH'")
        e5 == AppendIf(e4, e.result # "SUCCESS",
                       "the event's 'detail.result' must be 'SUCCESS'")
        e6 == AppendIf(e5, e.repositoryName = <<>>,
                       "the event's 'detail.repository-name' must not be empty")
        e7 == AppendIf(e6, e.imageDigest = <<>>,
                       "the event's 'detail.image-digest' must not be empty")
        validAccountId == MatchString(AccountIdPattern, e.account)
        e8 == AppendIf(e7, ~validAccountId,
                       "the event's 'account' must be a valid AWS account ID")
        validRepositoryName == MatchString(RepositoryNamePattern, e.repositoryName)
        c1 == IF validRepositoryName
              THEN WithValue(Background, RepositoryNameKey, e.repositoryName)
              ELSE Background
        e9 == AppendIf(e8, ~validRepositoryName,
                       "the event's 'detail.repository-name' must be a valid repository name")
        validImageDigest == MatchString(ImageDigestPattern, e.imageDigest)
        c2 == IF validImageDigest
              THEN WithValue(c1, ImageDigestKey, e.imageDigest)
              ELSE c1
        e10 == AppendIf(e9, ~validImageDigest,
                        "the event's 'detail.image-digest' must be a valid image digest")
        validImageTag == MatchString(ImageTagPattern, e.imageTag)
        c3 == IF e.imageTag # <<>> /\ validImageTag
              THEN WithValue(c2, ImageTagKey, e.imageTag)
              ELSE c2
        e11 == AppendIf(e10, e.imageTag # <<>> /\ ~validImageTag,
                        "the event's 'detail.image-tag' must be empty or a valid image tag")
    IN  [ctx |-> c3,
         errors |-> e11,
         err |-> firstError(e11)]

----------------------------------------------------------------------------
(* Inputs of one invocation *)

Account12 == <<"1", "2", "3", "4", "5", "6", "7", "8", "9", "0", "1", "2">>
Account13 == Account12 \o <<"3">>
Account5 == <<"1", "2", "3", "4", "5">>

RepoMyrepo == <<"m", "y", "r", "e", "p", "o">>
RepoUpper == <<"M", "Y">>

Sha256Prefix == <<"s", "h", "a", "2", "5", "6", ":">>
HexRun(n) == [i \in 1..n |-> "a"]
Digest32 == Sha256Prefix \o HexRun(32)
Digest31 == Sha256Prefix \o HexRun(31)
DigestJunk == <<"!", "!">> \o Sha256Prefix \o HexRun(32) \o <<"z", "z">>

RegionUsEast1 == <<"u", "s", "-", "e", "a", "s", "t", "-", "1">>
RegionCnNorth1 == <<"c", "n", "-", "n", "o", "r", "t", "h", "-", "1">>

TagLatest == <<"l", "a", "t", "e", "s", "t">>
TagBad == <<"!">>
SociSuffix == <<"-", "s", "o", "c", "i">>

Sources == {"aws.ecr", "aws.s3"}
Accounts == {Account12, Account13, Account5, <<>>}
DetailTypes == {"ECR Image Action", "ECR Image Scan"}
ActionTypes == {"PUSH", "DELETE"}
Results == {"SUCCESS", "FAILURE"}
RepositoryNames == {RepoMyrepo, RepoUpper, <<>>}
ImageDigests == {Digest32, Digest31, DigestJunk, <<>>}
ImageTags == {<<>>, TagLatest, TagBad}

\* every combination of the field values above in region us-east-1
UsEvents ==
    [source : Sources, account : Accounts, region : {RegionUsEast1},
     detailType : DetailTypes, actionType : ActionTypes, result : Results,
     repositoryName : RepositoryNames, imageDigest : ImageDigests,
     imageTag : ImageTags]

\* a valid event of a region of the "cn" partition
CnEvents ==
    [source : {"aws.ecr"}, account : {Account12}, region : {RegionCnNorth1},
     detailType : {"ECR Image Action"}, actionType : {"PUSH"}, result : {"SUCCESS"},
     repositoryName : {RepoMyrepo}, imageDigest : {Digest32},
     imageTag : {TagLatest}]

Events == UsEvents \cup CnEvents

\* values of the soci_index_version environment variable ("" when unset)
Versions == {"V1", "V2", "v2", ""}

\* errors of the external calls
RegistryInitError == "registry init failed"
ManifestFetchError == "manifest fetch failed"
IndexExistsError == "soci index already exists for image"
MkdirTempError == "mkdir /tmp: no space left on device"
OciStoreError == "oci store open failed"
PullError == "pull failed"
PushError == "push failed"
ArtifactsDbError == "artifacts db open failed"
ContainerdStoreError == "containerd store open failed"
NewIndexBuilderError == "index builder init failed"
BuilderError == "layer read failed"
CollectionError == "index descriptor query failed"
NoIndicesError == "no SOCI indices found in OCI store"
RemoveAllError == "unlinkat: permission denied"

\* index records of the artifacts database: descriptor and creation time
Descriptors == {"sha256:idx1", "sha256:idx2"}
ConvertedDescriptor == "sha256:ociindex"
IndexDescriptorInfos == [desc : Descriptors, createdAt : 1..MaxTime]
RecordSets == {R \in SUBSET IndexDescriptorInfos : Cardinality(R) <= MaxRecords}

\* what the libraries called by buildIndex answer up to builder.Build or
\* builder.Convert
BuildEnvs ==
    [artifactsDb : {Nil, ArtifactsDbError},
     containerdStore : {Nil, ContainerdStoreError},
     newIndexBuilder : {Nil, NewIndexBuilderError},
     build : {Nil, ErrEmptyIndex, BuilderError}]

\* what soci.GetIndexDescriptorCollection answers
CollectionEnvs ==
    [collection : {Nil, CollectionError},
     recs : RecordSets]

----------------------------------------------------------------------------
(* Helpers of HandleRequest *)

\* a byte count as its decimal digits, without leading zeros
DigitValue ==
    ("0" :> 0) @@ ("1" :> 1) @@ ("2" :> 2) @@ ("3" :> 3) @@ ("4" :> 4) @@
    ("5" :> 5) @@ ("6" :> 6) @@ ("7" :> 7) @@ ("8" :> 8) @@ ("9" :> 9)

\* a < b for two byte counts
LessThan(a, b) ==
    \/ Len(a) < Len(b)
    \/ /\ Len(a) = Len(b)
       /\ \E i \in DOMAIN a :
             /\ DigitValue[a[i]] < DigitValue[b[i]]
             /\ \A j \in 1..(i - 1) : a[j] = b[j]

\* createTempDir, line 244: 6_000_000_000
MinFreeSpace == <<"6", "0", "0", "0", "0", "0", "0", "0", "0", "0">>

\* what fs.CalculateFreeSpace("/tmp") may answer
FreeSpaces ==
    {<<"1", "0", "0", "0", "0", "0", "0", "0", "0", "0">>,
     MinFreeSpace}

\* the string made of the characters of s
RECURSIVE Join(_)
Join(s) == IF s = <<>> THEN "" ELSE Head(s) \o Join(Tail(s))

\* strings.HasPrefix(s, "cn")
HasPrefixCn(s) == Len(s) >= 2 /\ s[1] = "c" /\ s[2] = "n"

\* buildEcrRegistryUrl(event)
buildEcrRegistryUrl(e) ==
    LET awsDomain == IF HasPrefixCn(e.region) THEN ".amazonaws.com.cn" ELSE ".amazonaws.com"
    IN  Join(e.account) \o ".dkr.ecr." \o Join(e.region) \o awsDomain

\* lambdaError that drops the cause
lambdaError_NilCause(msg, err) == <<msg, Nil>>

\* lambdaError(ctx, msg, err): the returned pair (the Error record is
\* written by the calling action)
lambdaError(msg, err) == <<msg, err>>

ErrorRecord(msg) == <<"ERROR", msg>>
WarnRecord(msg) == <<"WARN", msg>>

\* createTempDir, lines 244-247: the records written before os.MkdirTemp
freeSpaceRecords(freeSpace) ==
    IF LessThan(freeSpace, MinFreeSpace)
    THEN <<WarnRecord("Free space in /tmp is only " \o Join(freeSpace)
                         \o " bytes, which is less than 6GB")>>
    ELSE <<>>

\* registry.ValidateImageDigest(ctx, repo, digest, sociIndexVersion): nil
\* unless an index is already published or the check itself fails
ValidateImageDigest(indexExists, checkFails) ==
    IF checkFails THEN ManifestFetchError
    ELSE IF indexExists THEN IndexExistsError
    ELSE Nil

\* originalTag, ok := ctx.Value(ImageTagKey).(string): the zero value when absent
originalTag(c) == IF ImageTagKey \in DOMAIN c THEN c[ImageTagKey] ELSE <<>>

\* !ok || originalTag == ""
NoOriginalTag(c) == ImageTagKey \notin DOMAIN c \/ originalTag(c) = <<>>

\* the pre-build check honoured for the converted strategy only
preBuildGate_CheckOnlyV2(err, version, c) ==
    IF err # Nil /\ version = "V2" THEN <<ManifestValidationMessage, Nil>>
    ELSE IF version = "V2" /\ NoOriginalTag(c) THEN <<NoTagSkipMessage, Nil>>
    ELSE NoReturn

\* the tag gate missing
preBuildGate_NoTagGate(err, version, c) ==
    IF err # Nil THEN <<ManifestValidationMessage, Nil>>
    ELSE NoReturn

\* a failure of the check itself returned to the caller as an error
preBuildGate_PropagatesCheckFailure(err, version, c) ==
    IF err = ManifestFetchError THEN <<ManifestValidationMessage, err>>
    ELSE IF err # Nil THEN <<ManifestValidationMessage, Nil>>
    ELSE IF version = "V2" /\ NoOriginalTag(c) THEN <<NoTagSkipMessage, Nil>>
    ELSE NoReturn

\* HandleRequest, lines 85-99: the return taken before the workspace exists,
\* NoReturn when the invocation goes on to createTempDir
preBuildGate(err, version, c) ==
    IF err # Nil THEN <<ManifestValidationMessage, Nil>>
    ELSE IF version = "V2" /\ NoOriginalTag(c) THEN <<NoTagSkipMessage, Nil>>
    ELSE NoReturn

\* the converted strategy's tag without its suffix
pushTag_NoSuffix(version, c) ==
    IF version = "V2" THEN originalTag(c) ELSE <<>>

\* HandleRequest, lines 92-103: the tag handed to registry.Push
pushTag(version, c) ==
    IF version = "V2" THEN originalTag(c) \o SociSuffix ELSE <<>>

\* records that the call returned err
Returned(call, err) ==
    [k \in (DOMAIN results) \cup {call} |-> IF k = call THEN err ELSE results[k]]

\* the strategy compared without regard to case
convertSelected_AnyCase(version) == version \in {"V2", "v2"}

\* buildIndex, line 339: sociIndexVersion == "V2"
convertSelected(version) == version = "V2"

\* the records sorted the other way round: the oldest one is left last
SortedLast_Oldest(recs) == {r \in recs : \A q \in recs : r.createdAt <= q.createdAt}

\* the element sort.Slice may leave last: no record was created after it
SortedLast(recs) == {r \in recs : \A q \in recs : q.createdAt <= r.createdAt}

\* buildIndex, lines 315-352: the initializations and the builder's call;
\* more tells that the legacy path goes on to line 355
buildIndex(version, env) ==
    IF env.artifactsDb # Nil
    THEN [desc |-> None, err |-> env.artifactsDb, calls |-> <<>>,
          answers |-> [k \in {} |-> Nil], more |-> FALSE]
    ELSE IF env.containerdStore # Nil
    THEN [desc |-> None, err |-> env.containerdStore, calls |-> <<>>,
          answers |-> [k \in {} |-> Nil], more |-> FALSE]
    ELSE IF env.newIndexBuilder # Nil
    THEN [desc |-> None, err |-> env.newIndexBuilder, calls |-> <<>>,
          answers |-> [k \in {} |-> Nil], more |-> FALSE]
    ELSE IF convertSelected(version)
    THEN IF env.build # Nil
         THEN [desc |-> None, err |-> Wrap("failed to convert OCI index", env.build),
               calls |-> <<"Convert">>, answers |-> [Convert |-> env.build],
               more |-> FALSE]
         ELSE [desc |-> ConvertedDescriptor, err |-> Nil,
               calls |-> <<"Convert">>, answers |-> [Convert |-> Nil],
               more |-> FALSE]
    ELSE IF env.build # Nil
    THEN [desc |-> None, err |-> Wrap("failed to build SOCI index", env.build),
          calls |-> <<"Build">>, answers |-> [Build |-> env.build], more |-> FALSE]
    ELSE [desc |-> None, err |-> Nil,
          calls |-> <<"Build">>, answers |-> [Build |-> Nil], more |-> TRUE]

\* buildIndex, lines 355-366: the records of the image and the last of them
\* after the sort
getIndexDescriptor(env) ==
    IF env.collection # Nil
    THEN {[desc |-> None, err |-> env.collection, infos |-> {}]}
    ELSE IF env.recs = {}
    THEN {[desc |-> None, err |-> NoIndicesError, infos |-> {}]}
    ELSE {[desc |-> r.desc, err |-> Nil, infos |-> env.recs] : r \in SortedLast(env.recs)}

\* the return pair HandleRequest derives from a failed buildIndex
buildErrorReturn(err) ==
    IF err = ErrEmptyIndex
    THEN <<SkipPushOnEmptyIndexMessage, Nil>>
    ELSE lambdaError(BuildFailedMessage, err)

buildErrorRecord(err) ==
    IF err = ErrEmptyIndex
    THEN WarnRecord(SkipPushOnEmptyIndexMessage)
    ELSE ErrorRecord(BuildFailedMessage)

\* success reported whatever registry.Push returned
pushReturn_AlwaysSuccess(err) == <<BuildAndPushSuccessMessage, Nil>>

\* the return pair after registry.Push
pushReturn(err) ==
    IF err # Nil
    THEN lambdaError(PushFailedMessage, err)
    ELSE <<BuildAndPushSuccessMessage, Nil>>

----------------------------------------------------------------------------
(* The invocation *)

\* the state at the call of HandleRequest, for the events and versions given
InitWith(evs, versions) ==
    /\ event \in evs
    /\ sociIndexVersion \in versions
    /\ pc = "validateEvent"
    /\ ctx = Background
    /\ errors = <<>>
    /\ tag = <<>>
    /\ ret = NoReturn
    /\ workspace = "none"
    /\ wd = "notStarted"
    /\ timerFired = FALSE
    /\ indexDescriptorInfos = {}
    /\ indexDescriptor = None
    /\ pushArgs = <<>>
    /\ results = [k \in {} |-> Nil]
    /\ trace = <<>>
    /\ log = <<>>

Init == InitWith(Events, Versions)

\* the validation error logged but not returned
Validate_IgnoresError ==
    /\ pc = "validateEvent"
    /\ LET v == validateEvent(event)
       IN  /\ ctx' = v.ctx
           /\ errors' = v.errors
           /\ log' = IF v.err # Nil
                     THEN Append(log, ErrorRecord(ValidationFailedMessage))
                     ELSE log
           /\ pc' = "registryInit"
    /\ UNCHANGED <<event, sociIndexVersion, tag, ret, workspace, wd, timerFired,
                   indexDescriptorInfos, indexDescriptor, pushArgs, results, trace>>

\* HandleRequest, lines 65-68: validate the event
Validate ==
    /\ pc = "validateEvent"
    /\ LET v == validateEvent(event)
       IN  /\ ctx' = v.ctx
           /\ errors' = v.errors
           /\ IF v.err # Nil
              THEN /\ ret' = lambdaError(ValidationFailedMessage, v.err)
                   /\ log' = Append(log, ErrorRecord(ValidationFailedMessage))
                   /\ trace' = Append(trace, "return")
                   /\ pc' = "returned"
              ELSE /\ pc' = "registryInit"
                   /\ UNCHANGED <<ret, log, trace>>
    /\ UNCHANGED <<event, sociIndexVersion, tag, workspace, wd, timerFired,
                   indexDescriptorInfos, indexDescriptor, pushArgs, results>>

\* HandleRequest, lines 76-82: the registry url stored in ctx, registryutils.Init
RegistryInit ==
    /\ pc = "registryInit"
    /\ ctx' = WithValue(ctx, RegistryURLKey, buildEcrRegistryUrl(event))
    /\ \E err \in {Nil, RegistryInitError} :
          /\ results' = Returned("Init", err)
          /\ IF err # Nil
             THEN /\ ret' = lambdaError(RegistryInitFailedMessage, err)
                  /\ log' = Append(log, ErrorRecord(RegistryInitFailedMessage))
                  /\ trace' = trace \o <<"Init", "return">>
                  /\ pc' = "returned"
             ELSE /\ pc' = "validateImageDigest"
                  /\ trace' = Append(trace, "Init")
                  /\ UNCHANGED <<ret, log>>
    /\ UNCHANGED <<event, sociIndexVersion, errors, tag, workspace, wd, timerFired,
                   indexDescriptorInfos, indexDescriptor, pushArgs>>

\* HandleRequest, lines 84-103: the pre-build check and the V2 tag gate
CheckImageDigest ==
    /\ pc = "validateImageDigest"
    /\ \E indexExists \in BOOLEAN, checkFails \in BOOLEAN :
          LET err == ValidateImageDigest(indexExists, checkFails)
              gate == preBuildGate(err, sociIndexVersion, ctx)
          IN  /\ results' = Returned("ValidateImageDigest", err)
              /\ log' = IF err # Nil
                        THEN Append(log, WarnRecord(Wrap("Image manifest validation error", err)))
                        ELSE log
              /\ IF gate # NoReturn
                 THEN /\ ret' = gate
                      /\ trace' = trace \o <<"ValidateImageDigest", "return">>
                      /\ pc' = "returned"
                      /\ tag' = tag
                 ELSE /\ tag' = pushTag(sociIndexVersion, ctx)
                      /\ trace' = Append(trace, "ValidateImageDigest")
                      /\ pc' = "createTempDir"
                      /\ ret' = ret
    /\ UNCHANGED <<event, sociIndexVersion, ctx, errors, workspace, wd, timerFired,
                   indexDescriptorInfos, indexDescriptor, pushArgs>>

\* the watchdog started before the error of createTempDir is looked at
CreateTempDir_DeadlineFirst ==
    /\ pc = "createTempDir"
    /\ \E freeSpace \in FreeSpaces, err \in {Nil, MkdirTempError} :
          /\ results' = Returned("createTempDir", err)
          /\ wd' = "select"
          /\ IF err # Nil
             THEN /\ trace' = trace \o <<"createTempDir", "setDeadline", "return">>
                  /\ ret' = lambdaError(DirCreateFailedMessage, err)
                  /\ log' = Append(log \o freeSpaceRecords(freeSpace),
                                   ErrorRecord(DirCreateFailedMessage))
                  /\ pc' = "returned"
                  /\ UNCHANGED workspace
             ELSE /\ trace' = trace \o <<"createTempDir", "setDeadline">>
                  /\ workspace' = "present"
                  /\ log' = log \o freeSpaceRecords(freeSpace)
                  /\ pc' = "initSociStore"
                  /\ UNCHANGED ret
    /\ UNCHANGED <<event, sociIndexVersion, ctx, errors, tag, timerFired,
                   indexDescriptorInfos, indexDescriptor, pushArgs>>

\* HandleRequest, lines 106-118: createTempDir, the two defers, setDeadline
CreateTempDir ==
    /\ pc = "createTempDir"
    /\ \E freeSpace \in FreeSpaces, err \in {Nil, MkdirTempError} :
          /\ results' = Returned("createTempDir", err)
          /\ IF err # Nil
             THEN /\ trace' = trace \o <<"createTempDir", "return">>
                  /\ ret' = lambdaError(DirCreateFailedMessage, err)
                  /\ log' = Append(log \o freeSpaceRecords(freeSpace),
                                   ErrorRecord(DirCreateFailedMessage))
                  /\ pc' = "returned"
                  /\ UNCHANGED <<workspace, wd>>
             ELSE /\ trace' = trace \o <<"createTempDir", "setDeadline">>
                  /\ workspace' = "present"
                  /\ wd' = "select"
                  /\ log' = log \o freeSpaceRecords(freeSpace)
                  /\ pc' = "initSociStore"
                  /\ UNCHANGED ret
    /\ UNCHANGED <<event, sociIndexVersion, ctx, errors, tag, timerFired,
                   indexDescriptorInfos, indexDescriptor, pushArgs>>

\* HandleRequest, lines 120-123: initSociStore
InitSociStore ==
    /\ pc = "initSociStore"
    /\ \E err \in {Nil, OciStoreError} :
          /\ results' = Returned("initSociStore", err)
          /\ IF err # Nil
             THEN /\ ret' = lambdaError(StoreInitFailedMessage, err)
                  /\ log' = Append(log, ErrorRecord(StoreInitFailedMessage))
                  /\ trace' = trace \o <<"initSociStore", "return">>
                  /\ pc' = "deferQuit"
             ELSE /\ pc' = "pull"
                  /\ trace' = Append(trace, "initSociStore")
                  /\ UNCHANGED <<ret, log>>
    /\ UNCHANGED <<event, sociIndexVersion, ctx, errors, tag, workspace, wd, timerFired,
                   indexDescriptorInfos, indexDescriptor, pushArgs>>

\* registry.Pull whose error is not checked
Pull_IgnoresError ==
    /\ pc = "pull"
    /\ \E err \in {Nil, PullError} :
          /\ results' = Returned("Pull", err)
          /\ pc' = "buildIndex"
          /\ trace' = Append(trace, "Pull")
          /\ UNCHANGED <<ret, log>>
    /\ UNCHANGED <<event, sociIndexVersion, ctx, errors, tag, workspace, wd, timerFired,
                   indexDescriptorInfos, indexDescriptor, pushArgs>>

\* HandleRequest, lines 125-128: registry.Pull
Pull ==
    /\ pc = "pull"
    /\ \E err \in {Nil, PullError} :
          /\ results' = Returned("Pull", err)
          /\ IF err # Nil
             THEN /\ ret' = lambdaError(PullFailedMessage, err)
                  /\ log' = Append(log, ErrorRecord(PullFailedMessage))
                  /\ trace' = trace \o <<"Pull", "return">>
                  /\ pc' = "deferQuit"
             ELSE /\ pc' = "buildIndex"
                  /\ trace' = Append(trace, "Pull")
                  /\ UNCHANGED <<ret, log>>
    /\ UNCHANGED <<event, sociIndexVersion, ctx, errors, tag, workspace, wd, timerFired,
                   indexDescriptorInfos, indexDescriptor, pushArgs>>

\* HandleRequest, lines 135-144, and buildIndex, lines 315-352: buildIndex up
\* to the return of builder.Build or builder.Convert, and the handling of
\* what it returns unless the legacy path goes on
BuildIndex ==
    /\ pc = "buildIndex"
    /\ \E env \in BuildEnvs :
          LET res == buildIndex(sociIndexVersion, env)
              answered == [k \in (DOMAIN results) \cup (DOMAIN res.answers) |->
                              IF k \in DOMAIN res.answers THEN res.answers[k]
                              ELSE results[k]]
          IN  IF res.more
              THEN /\ results' = answered
                   /\ trace' = trace \o res.calls
                   /\ pc' = "getIndexDescriptorCollection"
                   /\ UNCHANGED <<ctx, ret, log, indexDescriptor>>
              ELSE /\ results' = [k \in (DOMAIN answered) \cup {"buildIndex"} |->
                                     IF k = "buildIndex" THEN res.err ELSE answered[k]]
                   /\ IF res.err # Nil
                      THEN /\ ret' = buildErrorReturn(res.err)
                           /\ log' = Append(log, buildErrorRecord(res.err))
                           /\ trace' = trace \o res.calls \o <<"return">>
                           /\ pc' = "deferQuit"
                           /\ UNCHANGED <<ctx, indexDescriptor>>
                      ELSE /\ indexDescriptor' = res.desc
                           /\ ctx' = WithValue(ctx, SOCIIndexDigestKey, res.desc)
                           /\ trace' = trace \o res.calls
                           /\ pc' = "push"
                           /\ UNCHANGED <<ret, log>>
    /\ UNCHANGED <<event, sociIndexVersion, errors, tag, workspace, wd, timerFired,
                   indexDescriptorInfos, pushArgs>>

\* buildIndex, lines 355-366, and HandleRequest, lines 136-144:
\* soci.GetIndexDescriptorCollection, the choice of the record, and the
\* handling of what buildIndex returns
GetIndexDescriptorCollection ==
    /\ pc = "getIndexDescriptorCollection"
    /\ \E env \in CollectionEnvs :
          \E res \in getIndexDescriptor(env) :
             /\ results' = [k \in (DOMAIN results)
                                     \cup {"GetIndexDescriptorCollection", "buildIndex"} |->
                               IF k = "buildIndex" THEN res.err
                               ELSE IF k = "GetIndexDescriptorCollection" THEN env.collection
                               ELSE results[k]]
             /\ indexDescriptorInfos' = res.infos
             /\ IF res.err # Nil
                THEN /\ ret' = buildErrorReturn(res.err)
                     /\ log' = Append(log, buildErrorRecord(res.err))
                     /\ trace' = trace \o <<"GetIndexDescriptorCollection", "return">>
                     /\ pc' = "deferQuit"
                     /\ UNCHANGED <<ctx, indexDescriptor>>
                ELSE /\ indexDescriptor' = res.desc
                     /\ ctx' = WithValue(ctx, SOCIIndexDigestKey, res.desc)
                     /\ trace' = Append(trace, "GetIndexDescriptorCollection")
                     /\ pc' = "push"
                     /\ UNCHANGED <<ret, log>>
    /\ UNCHANGED <<event, sociIndexVersion, errors, tag, workspace, wd, timerFired,
                   pushArgs>>

\* registry.Push tried a second time after its first failure
Push_Retries ==
    /\ pc = "push"
    /\ \E err \in {Nil, PushError} :
          /\ results' = Returned("Push", err)
          /\ pushArgs' = Append(pushArgs, [desc |-> indexDescriptor,
                                            repo |-> event.repositoryName,
                                            tag |-> tag])
          /\ IF err # Nil /\ Len(pushArgs) = 0
             THEN /\ trace' = Append(trace, "Push")
                  /\ pc' = "push"
                  /\ UNCHANGED <<ret, log>>
             ELSE /\ trace' = trace \o <<"Push", "return">>
                  /\ ret' = pushReturn(err)
                  /\ log' = IF err # Nil THEN Append(log, ErrorRecord(PushFailedMessage)) ELSE log
                  /\ pc' = "deferQuit"
    /\ UNCHANGED <<event, sociIndexVersion, ctx, errors, tag, workspace, wd, timerFired,
                   indexDescriptorInfos, indexDescriptor>>

\* HandleRequest, lines 146-152: registry.Push and the final return
Push ==
    /\ pc = "push"
    /\ \E err \in {Nil, PushError} :
          /\ results' = Returned("Push", err)
          /\ trace' = trace \o <<"Push", "return">>
          /\ pushArgs' = Append(pushArgs, [desc |-> indexDescriptor,
                                            repo |-> event.repositoryName,
                                            tag |-> tag])
          /\ ret' = pushReturn(err)
          /\ log' = IF err # Nil THEN Append(log, ErrorRecord(PushFailedMessage)) ELSE log
          /\ pc' = "deferQuit"
    /\ UNCHANGED <<event, sociIndexVersion, ctx, errors, tag, workspace, wd, timerFired,
                   indexDescriptorInfos, indexDescriptor>>

\* cleanUp(ctx, dataDir) by the actor who: os.RemoveAll may fail, which is logged
cleanUp(who, rmErr) ==
    /\ trace' = Append(trace, who)
    /\ workspace' = IF rmErr = Nil THEN "removed" ELSE workspace
    /\ log' = IF rmErr = Nil THEN log ELSE Append(log, ErrorRecord(CleanUpFailedMessage))

\* the deferred send on a buffered quitChannel: it never waits for the goroutine
DeferQuit_Buffered ==
    /\ pc = "deferQuit"
    /\ pc' = "deferCleanUp"
    /\ wd' = IF wd = "select" THEN "quitExit" ELSE wd
    /\ trace' = Append(trace, "quit")
    /\ UNCHANGED <<event, sociIndexVersion, ctx, errors, tag, ret, workspace, timerFired,
                   indexDescriptorInfos, indexDescriptor, pushArgs, results, log>>

\* the return without any send on quitChannel
DeferQuit_Missing ==
    /\ pc = "deferQuit"
    /\ pc' = "deferCleanUp"
    /\ UNCHANGED <<wd, trace>>
    /\ UNCHANGED <<event, sociIndexVersion, ctx, errors, tag, ret, workspace, timerFired,
                   indexDescriptorInfos, indexDescriptor, pushArgs, results, log>>

\* HandleRequest, lines 114-116, and setDeadline, lines 280-281: the deferred
\* send on the unbuffered quitChannel completes only together with the
\* goroutine's receive
DeferQuit ==
    /\ pc = "deferQuit"
    /\ wd = "select"
    /\ pc' = "deferCleanUp"
    /\ wd' = "quitExit"
    /\ trace' = Append(trace, "quit")
    /\ UNCHANGED <<event, sociIndexVersion, ctx, errors, tag, ret, workspace, timerFired,
                   indexDescriptorInfos, indexDescriptor, pushArgs, results, log>>

\* the cleanUp called on the success path only, not deferred
DeferCleanUp_OnlyOnSuccess ==
    /\ pc = "deferCleanUp"
    /\ IF ret[2] = Nil
       THEN \E rmErr \in {Nil, RemoveAllError} : cleanUp("cleanUp(main)", rmErr)
       ELSE UNCHANGED <<trace, workspace, log>>
    /\ pc' = "returned"
    /\ UNCHANGED <<event, sociIndexVersion, ctx, errors, tag, ret, wd, timerFired,
                   indexDescriptorInfos, indexDescriptor, pushArgs, results>>

\* the two defers registered in the other order: cleanUp runs first, while
\* the send on quitChannel is still to come
DeferCleanUp_BeforeQuit ==
    \/ /\ pc = "deferQuit"
       /\ \A i \in DOMAIN trace : trace[i] # "cleanUp(main)"
       /\ \E rmErr \in {Nil, RemoveAllError} : cleanUp("cleanUp(main)", rmErr)
       /\ UNCHANGED <<event, sociIndexVersion, pc, ctx, errors, tag, ret, wd, timerFired,
                      indexDescriptorInfos, indexDescriptor, pushArgs, results>>
    \/ /\ pc = "deferCleanUp"
       /\ pc' = "returned"
       /\ UNCHANGED <<event, sociIndexVersion, ctx, errors, tag, ret, workspace, wd,
                      timerFired, indexDescriptorInfos, indexDescriptor, pushArgs,
                      results, trace, log>>

\* HandleRequest, line 110: the deferred cleanUp, then the return to the caller
DeferCleanUp ==
    /\ pc = "deferCleanUp"
    /\ \E rmErr \in {Nil, RemoveAllError} : cleanUp("cleanUp(main)", rmErr)
    /\ pc' = "returned"
    /\ UNCHANGED <<event, sociIndexVersion, ctx, errors, tag, ret, wd, timerFired,
                   indexDescriptorInfos, indexDescriptor, pushArgs, results>>

\* setDeadline, line 272: the timer armed for the deadline minus 10 seconds fires
TimerFire ==
    /\ wd # "notStarted"
    /\ ~timerFired
    /\ timerFired' = TRUE
    /\ trace' = Append(trace, "timer")
    /\ UNCHANGED <<event, sociIndexVersion, pc, ctx, errors, tag, ret, workspace, wd,
                   indexDescriptorInfos, indexDescriptor, pushArgs, results, log>>

\* a timeout branch that also cancels the main path's in-flight call
WatchdogTimeout_Interrupts ==
    /\ wd = "select"
    /\ timerFired
    /\ \E rmErr \in {Nil, RemoveAllError} : cleanUp("cleanUp(watchdog)", rmErr)
    /\ wd' = "timeoutLog"
    /\ pc' = IF pc \in {"initSociStore", "pull", "buildIndex", "push"} THEN "deferQuit" ELSE pc
    /\ UNCHANGED <<event, sociIndexVersion, ctx, errors, tag, ret, timerFired,
                   indexDescriptorInfos, indexDescriptor, pushArgs, results>>

\* setDeadline, lines 276-277: the select takes the timeout case and cleans up
WatchdogTimeout ==
    /\ wd = "select"
    /\ timerFired
    /\ \E rmErr \in {Nil, RemoveAllError} : cleanUp("cleanUp(watchdog)", rmErr)
    /\ wd' = "timeoutLog"
    /\ UNCHANGED <<event, sociIndexVersion, pc, ctx, errors, tag, ret, timerFired,
                   indexDescriptorInfos, indexDescriptor, pushArgs, results>>

\* the timeout branch without its log record
WatchdogLog_Silent ==
    /\ wd = "timeoutLog"
    /\ wd' = "timeoutExit"
    /\ UNCHANGED <<event, sociIndexVersion, pc, ctx, errors, tag, ret, workspace, timerFired,
                   indexDescriptorInfos, indexDescriptor, pushArgs, results, trace, log>>

\* setDeadline, lines 278-279: the timeout record, then the goroutine returns
WatchdogLog ==
    /\ wd = "timeoutLog"
    /\ log' = Append(log, ErrorRecord(TimeoutMessage))
    /\ wd' = "timeoutExit"
    /\ UNCHANGED <<event, sociIndexVersion, pc, ctx, errors, tag, ret, workspace, timerFired,
                   indexDescriptorInfos, indexDescriptor, pushArgs, results, trace>>

MainStep ==
    \/ Validate
    \/ RegistryInit
    \/ CheckImageDigest
    \/ CreateTempDir
    \/ InitSociStore
    \/ Pull
    \/ BuildIndex
    \/ GetIndexDescriptorCollection
    \/ Push
    \/ DeferQuit
    \/ DeferCleanUp

WatchdogStep ==
    \/ WatchdogTimeout
    \/ WatchdogLog

Next == MainStep \/ TimerFire \/ WatchdogStep

Spec == Init /\ [][Next]_vars

\* the events of the scheduling properties: well-formed but for the account,
\* with and without tag
FairEvents ==
    {e \in Events : /\ e.source = "aws.ecr"
                    /\ e.detailType = "ECR Image Action"
                    /\ e.actionType = "PUSH"
                    /\ e.result = "SUCCESS"
                    /\ e.repositoryName = RepoMyrepo
                    /\ e.imageDigest = Digest32
                    /\ e.account \in {Account12, Account5}
                    /\ e.region = RegionUsEast1
                    /\ e.imageTag \in {<<>>, TagLatest}}

FairInit == InitWith(FairEvents, {"V1", "V2"})

\* the Go scheduler runs every runnable goroutine, every external call
\* returns, and the timer fires
FairSpec ==
    /\ FairInit
    /\ [][Next]_vars
    /\ WF_vars(MainStep)
    /\ WF_vars(TimerFire)
    /\ WF_vars(WatchdogStep)

----------------------------------------------------------------------------
(* Vocabulary of the properties *)

\* number of occurrences of x in the history
Count(x) == Cardinality({i \in DOMAIN trace : trace[i] = x})
Called(x) == \E i \in DOMAIN trace : trace[i] = x
\* x occurred, and y did not occur before it
NotAfter(x, y) == \E i \in DOMAIN trace : trace[i] = x /\ \A j \in 1..i : trace[j] # y

\* the external call was made and returned err
Answered(call, err) == call \in DOMAIN results /\ results[call] = err
\* the external call was made and returned a non-nil error
Failed(call) == call \in DOMAIN results /\ results[call] # Nil

\* validateEvent has run and recorded no violation
ValidEvent == pc # "validateEvent" /\ errors = <<>>

NoPullBuildPush ==
    ~Called("Pull") /\ ~Called("Build") /\ ~Called("Convert") /\ ~Called("Push")

MainReleases == Count("cleanUp(main)")
WatchdogReleases == Count("cleanUp(watchdog)")
TimeoutRecords == Cardinality({i \in DOMAIN log : log[i] = ErrorRecord(TimeoutMessage)})
Acquired == Answered("createTempDir", Nil)

----------------------------------------------------------------------------
(* Properties *)

\* C1: in the legacy strategy, when builder.Build fails with the empty-index
\* error, HandleRequest returns (SkipPushOnEmptyIndexMessage, nil) and Push is
\* not called.
C1_EmptyIndexIsBenignSkip ==
    (sociIndexVersion # "V2" /\ Answered("Build", ErrEmptyIndex))
        => (ret = <<SkipPushOnEmptyIndexMessage, Nil>> /\ ~Called("Push"))

\* C2 as stated: an event with at least one violation makes HandleRequest
\* return a nil error.
C2_ValidationReturnsNil ==
    (pc = "returned" /\ errors # <<>>) => ret[2] = Nil

\* C2 amended: an event with at least one violation makes HandleRequest return
\* the validation message together with the first recorded violation, a
\* non-nil error, and nothing else is called.
C2_ValidationReturnsFirstViolation ==
    errors # <<>>
        => /\ pc = "returned"
           /\ ret = <<ValidationFailedMessage, errors[1]>>
           /\ ret[2] # Nil
           /\ trace = <<"return">>

C2_Witness ==
    /\ pc = "returned"
    /\ Len(errors) >= 2
    /\ ret = <<ValidationFailedMessage, errors[1]>>

\* C3: a valid event whose index the pre-build check reports as already
\* published returns (ManifestValidationMessage, nil) with no Pull, no
\* Build or Convert and no Push.
C3_IdempotencySkip ==
    Answered("ValidateImageDigest", IndexExistsError)
        => /\ ValidEvent
           /\ pc = "returned"
           /\ ret = <<ManifestValidationMessage, Nil>>
           /\ NoPullBuildPush
           /\ ~Called("createTempDir")

C3_Witness ==
    /\ Answered("ValidateImageDigest", IndexExistsError)
    /\ sociIndexVersion = "V1"
    /\ ret = <<ManifestValidationMessage, Nil>>
    /\ pc = "returned"

\* C4 as stated: strategy "V2" and a validated event without tag always return
\* (NoTagSkipMessage, nil), with no Build, Convert, Pull or Push.
C4_NoTagAlwaysSkips ==
    (pc = "returned" /\ ValidEvent /\ sociIndexVersion = "V2" /\ event.imageTag = <<>>)
        => (ret = <<NoTagSkipMessage, Nil>> /\ NoPullBuildPush)

\* C4 amended: under strategy "V2" a validated event without tag never reaches
\* Pull, Build, Convert or Push, and once registry init and the pre-build check
\* have both succeeded HandleRequest returns (NoTagSkipMessage, nil).
C4_NoTagSkipsAfterGates ==
    (ValidEvent /\ sociIndexVersion = "V2" /\ event.imageTag = <<>>)
        => /\ NoPullBuildPush
           /\ ~Called("createTempDir")
           /\ Answered("ValidateImageDigest", Nil)
                 => (pc = "returned" /\ ret = <<NoTagSkipMessage, Nil>>)

C4_Witness ==
    /\ ValidEvent /\ sociIndexVersion = "V2" /\ event.imageTag = <<>>
    /\ Answered("ValidateImageDigest", Nil)
    /\ ret = <<NoTagSkipMessage, Nil>>

\* C5: in every interleaving cleanUp is invoked at most once on the workspace,
\* never by both the watchdog's timeout branch and the main path's defer.
C5_ReleasedAtMostOnce ==
    MainReleases + WatchdogReleases <= 1

C5_Witness ==
    /\ WatchdogReleases = 1
    /\ wd = "timeoutExit"
    /\ pc = "deferQuit"

\* C6: every acquired workspace is eventually released by a cleanUp call,
\* whatever the exit path, when the main path and the timer are scheduled.
C6_EventuallyReleased ==
    Acquired ~> (MainReleases + WatchdogReleases >= 1)

C6_Witness ==
    /\ Acquired
    /\ pc = "returned"
    /\ ret[2] # Nil
    /\ MainReleases = 1

\* C7 as stated: a cancellation received before the timer fires gives one
\* release and no timeout record; a timer that fires before the main path has
\* completed gives one release, by the watchdog, and one timeout record.
C7_TimerBeforeCompletionMeansTimeout ==
    /\ (NotAfter("quit", "timer") /\ pc = "returned")
          => (MainReleases + WatchdogReleases = 1 /\ TimeoutRecords = 0)
    /\ (NotAfter("timer", "return") /\ wd \in {"quitExit", "timeoutExit"})
          => (WatchdogReleases = 1 /\ MainReleases = 0 /\ TimeoutRecords = 1)

\* C7 amended: once the cancellation is received (before or after the timer
\* fired) there is never a timeout record nor a release by the watchdog, and
\* the main path releases exactly once before it returns; once the watchdog's
\* select has taken the timeout case there is exactly one release, by the
\* watchdog, and exactly one timeout record when the watchdog exits.
C7_WatchdogOutcome ==
    /\ Called("quit")
          => /\ wd = "quitExit"
             /\ TimeoutRecords = 0
             /\ WatchdogReleases = 0
             /\ MainReleases = (IF pc = "returned" THEN 1 ELSE 0)
    /\ wd \in {"timeoutLog", "timeoutExit"}
          => /\ WatchdogReleases = 1
             /\ MainReleases = 0
             /\ TimeoutRecords = (IF wd = "timeoutExit" THEN 1 ELSE 0)

C7_Witness ==
    /\ wd = "timeoutExit"
    /\ NotAfter("timer", "return")
    /\ WatchdogReleases = 1
    /\ TimeoutRecords = 1

\* C8: every invocation eventually returns one (message, error) pair to its
\* caller, also when the timer fires before the deferred actions.
C8_EventuallyReturns ==
    <>(pc = "returned")

\* the stages of HandleRequest in program order, and their fixed labels
StageOrder ==
    <<"Init", "ValidateImageDigest", "createTempDir", "initSociStore",
      "Pull", "buildIndex", "Push">>
StageLabel ==
    [Init |-> RegistryInitFailedMessage,
     createTempDir |-> DirCreateFailedMessage,
     initSociStore |-> StoreInitFailedMessage,
     Pull |-> PullFailedMessage,
     buildIndex |-> BuildFailedMessage,
     Push |-> PushFailedMessage]

\* C9: a failure of registry init, directory creation, store initialization,
\* pull, build (other than the empty-index error) or push makes the return
\* statement yield the stage's label with the stage's own non-nil error, and
\* no later stage is called.
C9_FailurePropagated ==
    \A i \in DOMAIN StageOrder :
        LET stage == StageOrder[i]
        IN  (/\ stage \in DOMAIN StageLabel
             /\ Failed(stage)
             /\ ~(stage = "buildIndex" /\ results[stage] = ErrEmptyIndex))
                => /\ ret = <<StageLabel[stage], results[stage]>>
                   /\ ret[2] # Nil
                   /\ \A j \in DOMAIN StageOrder : j > i => StageOrder[j] \notin DOMAIN results

C9_Witness ==
    /\ Answered("Pull", PullError)
    /\ ret = <<PullFailedMessage, PullError>>
    /\ pc = "returned"

\* C10: the return statement yields (BuildAndPushSuccessMessage, nil) exactly
\* when Push was called and returned no error; so does a valid tagged event
\* under "V1" whose pull, build and push succeed.
C10_SuccessIffPushed ==
    /\ ret # NoReturn => (ret = <<BuildAndPushSuccessMessage, Nil>> <=> Answered("Push", Nil))
    /\ Answered("Push", Nil) => ret = <<BuildAndPushSuccessMessage, Nil>>

C10_Witness ==
    /\ ValidEvent
    /\ sociIndexVersion = "V1"
    /\ event.imageTag = TagLatest
    /\ Answered("Pull", Nil) /\ Answered("Build", Nil) /\ Answered("Push", Nil)
    /\ pc = "returned"
    /\ ret = <<BuildAndPushSuccessMessage, Nil>>

\* the builder of buildIndex was reached: none of its three initializations failed
BuilderReached ==
    /\ "buildIndex" \in DOMAIN results
    /\ results["buildIndex"] \notin {ArtifactsDbError, ContainerdStoreError, NewIndexBuilderError}

\* C11: the converted path (Convert, tag gate, retagging) runs exactly when
\* soci_index_version is "V2"; every other value, the unset one included,
\* runs the legacy path (Build and the record lookup); Build and Convert are
\* never both called.
C11_StrategySelection ==
    /\ Called("Convert") => sociIndexVersion = "V2"
    /\ Called("Build") => sociIndexVersion # "V2"
    /\ Called("GetIndexDescriptorCollection") => (sociIndexVersion # "V2" /\ Called("Build"))
    /\ Count("Build") + Count("Convert") <= 1
    /\ BuilderReached => (IF sociIndexVersion = "V2"
                          THEN Called("Convert") /\ ~Called("Build")
                          ELSE Called("Build") /\ ~Called("Convert"))
    /\ ret = <<NoTagSkipMessage, Nil>> => sociIndexVersion = "V2"
    /\ Called("createTempDir") => (tag # <<>> <=> sociIndexVersion = "V2")

C11_Witness ==
    /\ sociIndexVersion = "v2"
    /\ Called("Build")
    /\ Called("GetIndexDescriptorCollection")
    /\ Called("Push")

\* C12: every Push of the legacy strategy carries the empty tag, and every
\* Push of strategy "V2" carries the event's validated tag followed by
\* "-soci", with a non-empty validated tag.
C12_PushTag ==
    \A i \in DOMAIN pushArgs :
        IF sociIndexVersion = "V2"
        THEN /\ event.imageTag # <<>>
             /\ ctx[ImageTagKey] = event.imageTag
             /\ pushArgs[i].tag = event.imageTag \o <<"-", "s", "o", "c", "i">>
        ELSE pushArgs[i].tag = <<>>

C12_Witness ==
    /\ sociIndexVersion = "V2"
    /\ event.imageTag = TagLatest
    /\ Len(pushArgs) = 1
    /\ pushArgs[1].tag = <<"l", "a", "t", "e", "s", "t", "-", "s", "o", "c", "i">>

\* C13: after a successful legacy Build the descriptor buildIndex returns
\* belongs to a record created no earlier than any other record of the
\* database, and Push receives that descriptor unchanged; with no record at
\* all HandleRequest returns ("SOCI index build error", error) without Push.
C13_NewestRecord ==
    (sociIndexVersion # "V2" /\ Answered("GetIndexDescriptorCollection", Nil))
        => IF indexDescriptorInfos = {}
           THEN /\ ret[1] = BuildFailedMessage
                /\ ret[2] # Nil
                /\ ~Called("Push")
           ELSE /\ \E r \in indexDescriptorInfos :
                      /\ r.desc = indexDescriptor
                      /\ \A q \in indexDescriptorInfos : q.createdAt <= r.createdAt
                /\ \A i \in DOMAIN pushArgs : pushArgs[i].desc = indexDescriptor

C13_Witness ==
    /\ sociIndexVersion = "V1"
    /\ indexDescriptorInfos = {[desc |-> "sha256:idx1", createdAt |-> 1],
                               [desc |-> "sha256:idx2", createdAt |-> 2]}
    /\ indexDescriptor = "sha256:idx2"
    /\ Len(pushArgs) = 1
    /\ pushArgs[1].desc = "sha256:idx2"

\* an event field differs from the fixed value validateEvent requires
FixedValueMismatch ==
    \/ event.source # "aws.ecr"
    \/ event.detailType # "ECR Image Action"
    \/ event.actionType # "PUSH"
    \/ event.result # "SUCCESS"

\* C14: an event with a fixed-value mismatch, or any other recorded
\* violation, fails validation and nothing runs after it: no registry init,
\* no pre-build check, no workspace, no watchdog, no pull, build or push.
C14_InvalidEventStops ==
    (pc # "validateEvent" /\ (FixedValueMismatch \/ errors # <<>>))
        => /\ errors # <<>>
           /\ pc = "returned"
           /\ ret[1] = ValidationFailedMessage
           /\ results = <<>>
           /\ ~Called("Init") /\ ~Called("ValidateImageDigest")
           /\ ~Called("createTempDir") /\ ~Called("setDeadline")
           /\ NoPullBuildPush
           /\ workspace = "none"
           /\ wd = "notStarted"

C14_Witness ==
    /\ event.source = "aws.s3"
    /\ event.account = Account12
    /\ event.detailType = "ECR Image Action"
    /\ event.actionType = "PUSH"
    /\ event.result = "SUCCESS"
    /\ event.repositoryName = RepoMyrepo
    /\ event.imageDigest = Digest32
    /\ pc = "returned"
    /\ errors = <<"the event's 'source' must be 'aws.ecr'">>

\* the whole of s, from its first to its last character, is matched by re
WholeMatch(re, s) == (Len(s) + 1) \in Ends(re, s, 1)

\* <algorithm>:<hex>, the hex portion of at least 32 hexadecimal characters
DigestForm ==
    Cat(<<Plus(Cls(Upper \cup Lower \cup Digit \cup {"-", "_", "+", "."})),
          Cls({":"}),
          Rep(Cls(Hex), 32, -1)>>)

DigestViolations ==
    {"the event's 'detail.image-digest' must not be empty",
     "the event's 'detail.image-digest' must be a valid image digest"}

\* C15: every image digest that is not as a whole <algorithm>:<hex> with at
\* least 32 hexadecimal characters is recorded as a violation and fails
\* validation.
C15_DigestWholeForm ==
    (pc # "validateEvent" /\ ~WholeMatch(DigestForm, event.imageDigest))
        => /\ \E i \in DOMAIN errors : errors[i] \in DigestViolations
           /\ pc = "returned"
           /\ ret[1] = ValidationFailedMessage

\* exactly 12 decimal digits
TwelveDigits(s) == Len(s) = 12 /\ \A i \in DOMAIN s : s[i] \in Digit

\* C16: an account id that is not exactly 12 decimal digits fails validation
\* and no registry call of any kind is made.
C16_AccountExactlyTwelveDigits ==
    (pc # "validateEvent" /\ ~TwelveDigits(event.account))
        => /\ errors # <<>>
           /\ ret[1] = ValidationFailedMessage
           /\ ~Called("Init") /\ ~Called("ValidateImageDigest")
           /\ NoPullBuildPush

\* the rules of validateEvent in their fixed order
RuleMessages ==
    <<"the event's 'source' must be 'aws.ecr'",
      "the event's 'account' must not be empty",
      "the event's 'detail-type' must be 'ECR Image Action'",
      "the event's 'detail.action-type' must be 'PUSH'",
      "the event's 'detail.result' must be 'SUCCESS'",
      "the event's 'detail.repository-name' must not be empty",
      "the event's 'detail.image-digest' must not be empty",
      "the event's 'account' must be a valid AWS account ID",
      "the event's 'detail.repository-name' must be a valid repository name",
      "the event's 'detail.image-digest' must be a valid image digest",
      "the event's 'detail.image-tag' must be empty or a valid image tag">>

\* rule i of validateEvent is violated by event e
RuleViolated(e, i) ==
    CASE i = 1 -> e.source # "aws.ecr"
      [] i = 2 -> e.account = <<>>
      [] i = 3 -> e.detailType # "ECR Image Action"
      [] i = 4 -> e.actionType # "PUSH"
      [] i = 5 -> e.result # "SUCCESS"
      [] i = 6 -> e.repositoryName = <<>>
      [] i = 7 -> e.imageDigest = <<>>
      [] i = 8 -> ~MatchString(AccountIdPattern, e.account)
      [] i = 9 -> ~MatchString(RepositoryNamePattern, e.repositoryName)
      [] i = 10 -> ~MatchString(ImageDigestPattern, e.imageDigest)
      [] i = 11 -> e.imageTag # <<>> /\ ~MatchString(ImageTagPattern, e.imageTag)

\* the violated rules of event e, in rule order
ViolatedRules(e) == {i \in DOMAIN RuleMessages : RuleViolated(e, i)}

\* C17: validateEvent records the violation of every violated rule, in rule
\* order and without stopping at the first; validation succeeds exactly when
\* no rule is violated, and otherwise the returned error is the violation of
\* the first violated rule.
C17_AllRulesFirstReturned ==
    pc # "validateEvent"
        => LET V == ViolatedRules(event)
           IN  /\ Len(errors) = Cardinality(V)
               /\ \A i \in V : \E k \in DOMAIN errors : errors[k] = RuleMessages[i]
               /\ \A k, l \in DOMAIN errors :
                      k < l => \E i, j \in V : /\ i < j
                                               /\ errors[k] = RuleMessages[i]
                                               /\ errors[l] = RuleMessages[j]
               /\ (V = {}) <=> (ret[1] # ValidationFailedMessage)
               /\ V # {} => ret = <<ValidationFailedMessage,
                                    RuleMessages[CHOOSE i \in V : \A j \in V : i <= j]>>

C17_Witness ==
    /\ pc = "returned"
    /\ event.source = "aws.s3"
    /\ event.account = <<>>
    /\ event.imageTag = TagBad
    /\ Len(errors) >= 4
    /\ errors[2] = "the event's 'account' must not be empty"
    /\ errors[Len(errors)] = "the event's 'detail.image-tag' must be empty or a valid image tag"
    /\ ret = <<ValidationFailedMessage, "the event's 'source' must be 'aws.ecr'">>

\* C18: for an event that passes validation the context holds the event's
\* repository name and image digest unchanged, and the event's tag unchanged
\* exactly when that tag is not empty; validateEvent writes no other entry.
C18_ContextHoldsInput ==
    ValidEvent
        => /\ {RepositoryNameKey, ImageDigestKey} \subseteq DOMAIN ctx
           /\ ImageTagKey \in DOMAIN ctx <=> event.imageTag # <<>>
           /\ pc = "registryInit" =>
                 DOMAIN ctx \subseteq {RepositoryNameKey, ImageDigestKey, ImageTagKey}
           /\ ctx[RepositoryNameKey] = event.repositoryName
           /\ ctx[ImageDigestKey] = event.imageDigest
           /\ event.imageTag # <<>> => ctx[ImageTagKey] = event.imageTag

C18_Witness ==
    /\ ValidEvent
    /\ event.imageDigest = DigestJunk
    /\ ctx[ImageDigestKey] = DigestJunk
    /\ event.imageTag = TagLatest
    /\ ctx[ImageTagKey] = TagLatest
    /\ ctx[RepositoryNameKey] = RepoMyrepo

\* C19 as stated: the cancellation signal is never delivered strictly before
\* the main path's cleanUp has started.
C19_CleanUpNotAfterQuit ==
    Called("quit") => NotAfter("cleanUp(main)", "quit")

\* C19 amended: the deferred actions run in the reverse of their
\* registration, so the main path's cleanUp starts only after the
\* cancellation signal was delivered to the watchdog, and an invocation that
\* returns after acquiring the workspace has done both, each once.
C19_QuitBeforeCleanUp ==
    /\ Called("cleanUp(main)") => NotAfter("quit", "cleanUp(main)")
    /\ Count("quit") <= 1 /\ Count("cleanUp(main)") <= 1
    /\ (pc = "returned" /\ Acquired)
          => (Called("quit") /\ Called("cleanUp(main)"))

C19_Witness ==
    /\ pc = "returned"
    /\ Acquired
    /\ Called("Push")
    /\ ~timerFired
    /\ trace[Len(trace) - 1] = "quit"
    /\ trace[Len(trace)] = "cleanUp(main)"

\* C20: whenever HandleRequest has returned after starting the watchdog, the
\* watchdog goroutine has exited through its cancellation branch, and it has
\* neither released the workspace nor written a log record.
C20_WatchdogExitedAtReturn ==
    (pc = "returned" /\ Called("setDeadline"))
        => /\ wd = "quitExit"
           /\ Called("quit")
           /\ WatchdogReleases = 0
           /\ TimeoutRecords = 0
           /\ ~ENABLED WatchdogStep

C20_Witness ==
    /\ pc = "returned"
    /\ Called("setDeadline")
    /\ timerFired
    /\ wd = "quitExit"
    /\ WatchdogReleases = 0

\* the build operation of either strategy
BuildCalls == {"Build", "Convert"}

\* every occurrence of a call of X precedes every occurrence of a call of Y
Precedes(X, Y) ==
    \A i, j \in DOMAIN trace : (trace[i] \in X /\ trace[j] \in Y) => i < j

\* C21: within one invocation Pull, the build operation and Push are each
\* invoked at most once and in that order, without retry; the build is
\* invoked only after Pull returned no error, and Push only after buildIndex
\* returned a descriptor and no error.
C21_StagesOnceInOrder ==
    /\ Count("Pull") <= 1
    /\ Count("Build") + Count("Convert") <= 1
    /\ Count("Push") <= 1
    /\ Len(pushArgs) = Count("Push")
    /\ Precedes({"Pull"}, BuildCalls)
    /\ Precedes(BuildCalls, {"Push"})
    /\ Precedes({"Pull"}, {"Push"})
    /\ (\E c \in BuildCalls : Called(c)) => Answered("Pull", Nil)
    /\ "buildIndex" \in DOMAIN results => Answered("Pull", Nil)
    /\ Called("Push") => /\ Answered("buildIndex", Nil)
                         /\ \E c \in BuildCalls : Answered(c, Nil)
                         /\ indexDescriptor # None
                         /\ pushArgs[1].desc = indexDescriptor

C21_Witness ==
    /\ trace = <<"Init", "ValidateImageDigest", "createTempDir", "setDeadline",
                 "initSociStore", "Pull", "Convert", "Push", "return">>
    /\ Answered("Push", PushError)
    /\ pc = "deferQuit"

\* what the main path holds: its position, its values and the answers it got
mainState ==
    <<event, sociIndexVersion, pc, ctx, errors, tag, ret, indexDescriptorInfos,
      indexDescriptor, pushArgs, results>>

\* a step of the watchdog's timeout branch
TimeoutBranchStep ==
    \/ wd = "select" /\ wd' = "timeoutLog"
    \/ wd = "timeoutLog" /\ wd' = "timeoutExit"

\* C22: the steps of the watchdog's timeout branch change only the workspace
\* (removed, or left when the removal fails) and the log (one timeout record,
\* preceded by a clean-up error record when the removal fails); they leave
\* the main path's position, values and answers unchanged, so an in-flight
\* pull, build or push is not interrupted.
C22_TimeoutBranchFrame ==
    [][TimeoutBranchStep
         => /\ UNCHANGED mainState
            /\ UNCHANGED timerFired
            /\ IF wd = "select"
               THEN /\ workspace' \in {"removed", workspace}
                    /\ log' \in {log, Append(log, ErrorRecord(CleanUpFailedMessage))}
                    /\ workspace' = workspace <=> log' # log
               ELSE /\ workspace' = workspace
                    /\ log' = Append(log, ErrorRecord(TimeoutMessage))]_vars

\* the main path went on to Pull, Build and Push after the watchdog had
\* removed the workspace
C22_Witness ==
    /\ workspace = "removed"
    /\ wd = "timeoutExit"
    /\ TimeoutRecords = 1
    /\ NotAfter("cleanUp(watchdog)", "Pull")
    /\ Answered("Pull", Nil)
    /\ Answered("Build", Nil)
    /\ Answered("Push", Nil)
    /\ pc = "deferQuit"

\* the stage of HandleRequest that returned a non-nil error, if any
FailedStages == {st \in DOMAIN StageLabel : Failed(st)}

\* the outcome of the first applicable cause, in the order validation
\* violation, idempotency hit, converted-strategy missing tag, empty-index
\* build, infrastructure failure, successful push; each cause is counted as
\* applicable only once the invocation has met it
OutcomeByPriority ==
    IF errors # <<>>
    THEN <<ValidationFailedMessage, errors[1]>>
    ELSE IF Answered("ValidateImageDigest", IndexExistsError)
    THEN <<ManifestValidationMessage, Nil>>
    ELSE IF /\ sociIndexVersion = "V2" /\ event.imageTag = <<>>
            /\ Answered("ValidateImageDigest", Nil)
    THEN <<NoTagSkipMessage, Nil>>
    ELSE IF \E c \in BuildCalls : Answered(c, ErrEmptyIndex)
    THEN <<SkipPushOnEmptyIndexMessage, Nil>>
    ELSE IF FailedStages # {}
    THEN LET st == CHOOSE st \in FailedStages : TRUE
         IN  <<StageLabel[st], results[st]>>
    ELSE IF Answered("Push", Nil)
    THEN <<BuildAndPushSuccessMessage, Nil>>
    ELSE ret

\* C23: the pair HandleRequest returns is the outcome of the first applicable
\* cause in the order validation violation, idempotency hit, missing tag under
\* "V2", empty-index build, infrastructure failure, successful push, each
\* with its own fixed message; a valid untagged event under "V2" whose index
\* exists gets the idempotency outcome.
C23_OutcomePriority ==
    ret # NoReturn
        => /\ ret = OutcomeByPriority
           /\ Cardinality(FailedStages) <= 1

\* no workspace was acquired, no watchdog started and no release invoked
NothingAcquired ==
    /\ workspace = "none"
    /\ wd = "notStarted"
    /\ ~timerFired
    /\ ~Called("setDeadline")
    /\ MainReleases + WatchdogReleases = 0

\* the outcomes decided before the workspace exists
EarlyMessages ==
    {ValidationFailedMessage, RegistryInitFailedMessage, ManifestValidationMessage,
     NoTagSkipMessage, DirCreateFailedMessage}

\* C24: a workspace exists and a watchdog runs only in invocations whose
\* event passed validation, whose registry init and pre-build check returned
\* no error and, under "V2", whose tag is not empty; the validation-error,
\* init-error, idempotency-skip and missing-tag-skip outcomes and a failed
\* directory creation return with nothing acquired, started or released.
C24_AcquiredOnlyPastGates ==
    /\ (Called("createTempDir") \/ ~NothingAcquired)
          => /\ ValidEvent
             /\ Answered("Init", Nil)
             /\ Answered("ValidateImageDigest", Nil)
             /\ sociIndexVersion = "V2" => event.imageTag # <<>>
    /\ ~NothingAcquired => (Acquired /\ Called("setDeadline"))
    /\ Acquired => (wd # "notStarted" /\ workspace # "none")
    /\ ret[1] \in EarlyMessages => (pc = "returned" /\ NothingAcquired)
    /\ Failed("createTempDir") => (ret[1] = DirCreateFailedMessage /\ NothingAcquired)

C24_Witness ==
    /\ Answered("createTempDir", MkdirTempError)
    /\ sociIndexVersion = "V2"
    /\ event.imageTag = TagLatest
    /\ ret = <<DirCreateFailedMessage, MkdirTempError>>
    /\ pc = "returned"
    /\ NothingAcquired

\* C25: every non-nil result of the pre-build check, an index already
\* published or a failure of the check itself, gives the same outcome
\* (ManifestValidationMessage, nil) with a warning and no error record; no
\* workspace, pull, build or push follows.
C25_CheckFailureIsSkip ==
    Failed("ValidateImageDigest")
        => /\ results["ValidateImageDigest"] \in {IndexExistsError, ManifestFetchError}
           /\ pc = "returned"
           /\ ret = <<ManifestValidationMessage, Nil>>
           /\ log = <<WarnRecord(Wrap("Image manifest validation error",
                                       results["ValidateImageDigest"]))>>
           /\ trace = <<"Init", "ValidateImageDigest", "return">>
           /\ workspace = "none" /\ wd = "notStarted"

C25_Witness ==
    /\ Answered("ValidateImageDigest", ManifestFetchError)
    /\ sociIndexVersion = "V2"
    /\ event.imageTag = <<>>
    /\ pc = "returned"
    /\ ret = <<ManifestValidationMessage, Nil>>

====
